---- MODULE Spec2Model ----
(***************************************************************************)
(* A model of torchx/cli/cmd_run.py: the `torchx run` sub-command.         *)
(* CmdRun.run reads a *.torchx document, splits it into a YAML front       *)
(* matter and a Python script, builds an argparse schema from the front    *)
(* matter, validates the script's syntax tree with ConfValidator, executes *)
(* the script and hands the exported application to the tsm session.       *)
(*                                                                         *)
(* Text is modelled as sequences of one-character strings, so that         *)
(* str.split and str.startswith are computed character by character.      *)
(* The libraries the command calls (yaml.safe_load, ast.parse, argparse's  *)
(* parse_args, exec of the script, the tsm session) are the environment:   *)
(* their results are drawn from bounded sets.                              *)
(***************************************************************************)
EXTENDS Integers, Sequences, FiniteSets, TLC

VARIABLES
    pc,           \* position of CmdRun.run
    body,         \* text returned by read_conf_file
    frontmatter,  \* text before the separator
    script,       \* text after the separator
    conf,         \* conf["arguments"]: the argument declarations
    parser,       \* the arguments added to script_parser, in order
    node,         \* ast.parse(script)
    exports,      \* the arguments of the script's export(...) calls, in order
    app,          \* the nonlocal `app` written by export
    scheduler,    \* args.scheduler
    calls,        \* calls made on the tsm session, in order
    out,          \* lines printed by run
    err,          \* the exception that ended run
    stages        \* the stages run has entered, in order

vars == <<pc, body, frontmatter, script, conf, parser, node, exports, app,
          scheduler, calls, out, err, stages>>

-----------------------------------------------------------------------------
(* Bounds *)

MaxDocLen == 10
MaxBody == 2
MaxDepth == 2
MaxArgs == 2
MaxExports == 2

-----------------------------------------------------------------------------
(* Text *)

NL == "\n"

Chars == {NL, "-", "a"}

\* s.startswith(prefix)
StartsWith(s, prefix) ==
    /\ Len(prefix) <= Len(s)
    /\ SubSeq(s, 1, Len(prefix)) = prefix

\* s.find(sep, i): the least index >= i at which sep occurs in s, 0 if none
Find(s, sep, i) ==
    LET hits == {j \in i..(Len(s) - Len(sep) + 1) :
                    SubSeq(s, j, j + Len(sep) - 1) = sep}
    IN  IF hits = {} THEN 0
        ELSE CHOOSE j \in hits : \A k \in hits : j <= k

\* s.split(sep, 1): cut at the first occurrence only
StrSplitFirst(s, sep) ==
    LET j == Find(s, sep, 1)
    IN  IF j = 0 THEN <<s>>
        ELSE <<SubSeq(s, 1, j - 1), SubSeq(s, j + Len(sep), Len(s))>>

RECURSIVE StrSplit(_, _)
\* s.split(sep): cut at the occurrences of sep found scanning left to right
StrSplit(s, sep) ==
    LET j == Find(s, sep, 1)
    IN  IF j = 0 THEN <<s>>
        ELSE <<SubSeq(s, 1, j - 1)>>
                \o StrSplit(SubSeq(s, j + Len(sep), Len(s)), sep)

SEPARATOR == <<NL, "-", "-", "-", NL>>

-----------------------------------------------------------------------------
(* Exceptions *)

NoErr == [stage |-> "", kind |-> "", name |-> "", path |-> <<>>]

Error(stage, kind) == [stage |-> stage, kind |-> kind, name |-> "", path |-> <<>>]

\* run ends but the exception is lost
RaiseSwallowed(e) ==
    /\ pc' = "failed"
    /\ err' = NoErr

\* an exception leaves run: nothing after the raising statement executes
Raise(e) ==
    /\ pc' = "failed"
    /\ err' = e

-----------------------------------------------------------------------------
(* Python values that reach the schema: None, int, float (in tenths), str *)

None == [t |-> "NoneType", n |-> 0, s |-> ""]
PyInt(n) == [t |-> "int", n |-> n, s |-> ""]
PyFloat(tenths) == [t |-> "float", n |-> tenths, s |-> ""]
PyStr(s) == [t |-> "str", n |-> 0, s |-> s]

\* bool(v), as `if default:` evaluates it
Truthy(v) ==
    CASE v.t = "NoneType" -> FALSE
      [] v.t = "int" -> v.n # 0
      [] v.t = "float" -> v.n # 0
      [] v.t = "str" -> v.s # ""

IntLiteral == ("0" :> 0) @@ ("1" :> 1)
FloatLiteral == ("0" :> 0) @@ ("1" :> 10) @@ ("0.0" :> 0) @@ ("1.0" :> 10) @@ ("1.5" :> 15)
IntRepr == (0 :> "0") @@ (1 :> "1")
FloatRepr == (0 :> "0.0") @@ (10 :> "1.0") @@ (15 :> "1.5")

Ok(v) == [ok |-> TRUE, val |-> v]
ValueError == [ok |-> FALSE, val |-> None]

\* int(v), str(v), float(v)
Coerce(type, v) ==
    CASE type = "int" ->
            (CASE v.t = "int" -> Ok(v)
               [] v.t = "float" -> Ok(PyInt(v.n \div 10))
               [] v.t = "str" -> IF v.s \in DOMAIN IntLiteral
                                 THEN Ok(PyInt(IntLiteral[v.s])) ELSE ValueError
               [] OTHER -> ValueError)
      [] type = "float" ->
            (CASE v.t = "int" -> Ok(PyFloat(v.n * 10))
               [] v.t = "float" -> Ok(v)
               [] v.t = "str" -> IF v.s \in DOMAIN FloatLiteral
                                 THEN Ok(PyFloat(FloatLiteral[v.s])) ELSE ValueError
               [] OTHER -> ValueError)
      [] type = "str" ->
            (CASE v.t = "int" -> Ok(PyStr(IntRepr[v.n]))
               [] v.t = "float" -> Ok(PyStr(FloatRepr[v.n]))
               [] v.t = "str" -> Ok(v)
               [] OTHER -> Ok(PyStr("None")))

\* d.get(key, dflt)
Get(d, key, dflt) == IF key \in DOMAIN d THEN d[key] ELSE dflt

-----------------------------------------------------------------------------
(* _get_arg_type *)

TYPES == <<"int", "str", "float">>

GetArgTypeAny(type_name) == [ok |-> TRUE, type |-> "str"]

\* the first t in TYPES with t.__name__ == type_name, TypeError if none
GetArgType(type_name) ==
    LET hits == {i \in 1..Len(TYPES) : TYPES[i] = type_name}
    IN  IF hits = {} THEN [ok |-> FALSE, type |-> type_name]
        ELSE [ok |-> TRUE, type |-> TYPES[CHOOSE i \in hits : \A k \in hits : i <= k]]

-----------------------------------------------------------------------------
(* The argument loop of CmdRun.run *)

PyBool(b) == [t |-> "bool", n |-> IF b THEN 1 ELSE 0, s |-> ""]

\* `if default:` decides whether the default goes through arg_type
NeedsCoercion(default) == Truthy(default)

\* script_args for one declaration, given its resolved type and default
ScriptArgs(arg, arg_type, default) ==
    [name |-> arg["name"], type |-> arg_type, default |-> default,
     nargs |-> IF Get(arg, "remainder", PyBool(FALSE)).n # 0 THEN "REMAINDER" ELSE ""]

RECURSIVE AddArguments(_, _)
\* for arg in conf["arguments"]: ... script_parser.add_argument(...)
AddArguments(decls, acc) ==
    IF decls = <<>> THEN [err |-> NoErr, parser |-> acc]
    ELSE
      LET arg == Head(decls)
          type_name == Get(arg, "type", "str")
          arg_type == GetArgType(type_name)
          default == Get(arg, "default", None)
          coerced == IF NeedsCoercion(default) THEN Coerce(arg_type.type, default)
                     ELSE Ok(default)
      IN  IF ~arg_type.ok
            THEN [err |-> [Error("SCHEMA_BUILD", "TypeError") EXCEPT !.name = type_name],
                  parser |-> acc]
          ELSE IF ~coerced.ok
            THEN [err |-> Error("SCHEMA_BUILD", "ValueError"), parser |-> acc]
          ELSE IF "name" \notin DOMAIN arg
            THEN [err |-> Error("SCHEMA_BUILD", "KeyError"), parser |-> acc]
          ELSE AddArguments(Tail(decls),
                            Append(acc, ScriptArgs(arg, arg_type.type, coerced.val)))

-----------------------------------------------------------------------------
(* Syntax trees and ConfValidator *)

IMPORT_ALLOWLIST ==
    << <<"t","o","r","c","h","x">>,
       <<"t","o","r","c","h","e","l","a","s","t","i","c",".","t","s","m">>,
       <<"o","s",".","p","a","t","h">>,
       <<"p","y","t","o","r","c","h",".","e","l","a","s","t","i","c",".",
         "t","o","r","c","h","e","l","a","s","t","i","c",".","t","s","m">> >>

FEATURE_BLOCKLIST ==
    {"FunctionDef", "ClassDef", "Return", "Delete", "For", "AsyncFor", "While",
     "If", "With", "AsyncWith", "Raise", "Try", "Global", "Nonlocal",
     "ListComp", "SetComp", "DictComp", "GeneratorExp"}

\* an ast node: its class, its child nodes in field order, and for the import
\* statements the alias names, the module (<<>> for None) and the level
Node(kind, children) ==
    [kind |-> kind, children |-> children, names |-> <<>>, module |-> <<>>, level |-> 0]

Import(names) ==
    [kind |-> "Import", children |-> <<>>, names |-> names, module |-> <<>>, level |-> 0]

ImportFrom(module, level, names) ==
    [kind |-> "ImportFrom", children |-> <<>>, names |-> names, module |-> module,
     level |-> level]

NoNode == Node("", <<>>)

RECURSIVE ValidateImportPath(_)
\* _validate_import_path: ImportError for the first name no prefix matches
ValidateImportPath(names) ==
    IF names = <<>> THEN NoErr
    ELSE IF ~\E i \in 1..Len(IMPORT_ALLOWLIST) : StartsWith(Head(names), IMPORT_ALLOWLIST[i])
      THEN [Error("VALIDATE", "ImportError") EXCEPT !.path = Head(names)]
    ELSE ValidateImportPath(Tail(names))

\* visit_Import
VisitImport(n) == ValidateImportPath(n.names)

\* visit_ImportFrom: `if module := node.module` skips None
VisitImportFrom(n) ==
    IF n.module # <<>> THEN ValidateImportPath(<<n.module>>) ELSE NoErr

\* the blocklist test at the head of ConfValidator.visit
IsBlocked(n) == n.kind \in FEATURE_BLOCKLIST

RECURSIVE Visit(_)
RECURSIVE GenericVisit(_)

\* ConfValidator.visit, then NodeVisitor.visit's dispatch on the class name
Visit(n) ==
    IF IsBlocked(n)
      THEN [Error("VALIDATE", "UnsupportFeatureError") EXCEPT !.name = n.kind]
    ELSE IF n.kind = "Import" THEN VisitImport(n)
    ELSE IF n.kind = "ImportFrom" THEN VisitImportFrom(n)
    ELSE GenericVisit(n.children)

\* a traversal that stops after the first child
GenericVisitFirst(children) ==
    IF children = <<>> THEN NoErr ELSE Visit(Head(children))

\* NodeVisitor.generic_visit: visit the children in order; an exception ends it
GenericVisit(children) ==
    IF children = <<>> THEN NoErr
    ELSE LET e == Visit(Head(children))
         IN  IF e # NoErr THEN e ELSE GenericVisit(Tail(children))

-----------------------------------------------------------------------------
(* read_conf_file *)

\* which file read_conf_file opens: the user's, the builtin, or none
ReadConfFile(userExists, builtinExists) ==
    IF userExists THEN "user"
    ELSE IF builtinExists THEN "builtin"
    ELSE "missing"

-----------------------------------------------------------------------------
(* The script's run and the exported value *)

Application(i) == [t |-> "Application", n |-> i, s |-> ""]
Role == [t |-> "Role", n |-> 0, s |-> ""]

\* isinstance(app, tsm.Application)
IsApplication(v) == v.t = "Application"

\* an export that keeps the first value it was given
ExportFirst(cur, _app) == IF cur = None THEN _app ELSE cur

\* def export(_app): nonlocal app; app = _app
Export(cur, _app) == _app

RECURSIVE RunExports(_, _)
\* the value of `app` after the script made these export calls in order
RunExports(args, cur) ==
    IF args = <<>> THEN cur
    ELSE RunExports(Tail(args), Export(cur, Head(args)))

MISSING_EXPORT == "config file did not export an app"
NOT_AN_APPLICATION == "config file did not export a torchx.spec.Application"

\* only the first assert
CheckAppNotNone(v) ==
    IF v = None THEN [Error("EXECUTE", "AssertionError") EXCEPT !.name = MISSING_EXPORT]
    ELSE NoErr

\* the two assert statements after exec
CheckApp(v) ==
    IF v = None THEN [Error("EXECUTE", "AssertionError") EXCEPT !.name = MISSING_EXPORT]
    ELSE IF ~IsApplication(v)
      THEN [Error("EXECUTE", "AssertionError") EXCEPT !.name = NOT_AN_APPLICATION]
    ELSE NoErr

-----------------------------------------------------------------------------
(* CmdRun.run, statement by statement *)

NoConf == [loaded |-> FALSE, arguments |-> <<>>]

InitWith(schedulers) ==
    /\ pc = "load"
    /\ body = <<>>
    /\ frontmatter = <<>>
    /\ script = <<>>
    /\ conf = NoConf
    /\ parser = <<>>
    /\ node = NoNode
    /\ exports = <<>>
    /\ app = None
    /\ scheduler \in schedulers
    /\ calls = <<>>
    /\ out = <<>>
    /\ err = NoErr
    /\ stages = <<>>

\* args.scheduler is a name, or None when --scheduler is not given
Init == InitWith({PyStr("local"), PyStr("slurm"), PyStr("Local"), None})

InitLocal == InitWith({PyStr("local")})

\* body = read_conf_file(args.conf_file)
Load(docs) ==
    /\ pc = "load"
    /\ stages' = Append(stages, "LOAD")
    /\ \E userExists, builtinExists \in BOOLEAN, text \in docs :
          IF ReadConfFile(userExists, builtinExists) = "missing"
            THEN Raise(Error("LOAD", "FileNotFoundError")) /\ UNCHANGED body
            ELSE pc' = "split" /\ body' = text /\ UNCHANGED err
    /\ UNCHANGED <<frontmatter, script, conf, parser, node, exports, app,
                   scheduler, calls, out>>

\* frontmatter, script = body.split("\n---\n")
Split ==
    /\ pc = "split"
    /\ stages' = Append(stages, "SPLIT")
    /\ LET parts == StrSplit(body, SEPARATOR)
       IN  IF Len(parts) = 2
             THEN /\ frontmatter' = parts[1]
                  /\ script' = parts[2]
                  /\ pc' = "yaml"
                  /\ UNCHANGED err
             ELSE /\ Raise(Error("SPLIT", "ValueError"))
                  /\ UNCHANGED <<frontmatter, script>>
    /\ UNCHANGED <<body, conf, parser, node, exports, app, scheduler, calls, out>>

\* conf = yaml.safe_load(frontmatter); the parser object is constructed
YamlLoad(confs) ==
    /\ pc = "yaml"
    /\ \/ Raise(Error("SPLIT", "YAMLError")) /\ UNCHANGED conf
       \/ \E decls \in confs :
            /\ conf' = [loaded |-> TRUE, arguments |-> decls]
            /\ pc' = "schema"
            /\ UNCHANGED err
    /\ UNCHANGED <<body, frontmatter, script, parser, node, exports, app,
                   scheduler, calls, out, stages>>

\* for arg in conf["arguments"]: ...
BuildSchema ==
    /\ pc = "schema"
    /\ stages' = Append(stages, "SCHEMA_BUILD")
    /\ LET r == AddArguments(conf.arguments, <<>>)
       IN  /\ parser' = r.parser
           /\ IF r.err = NoErr THEN pc' = "parse" /\ UNCHANGED err
              ELSE Raise(r.err)
    /\ UNCHANGED <<body, frontmatter, script, conf, node, exports, app,
                   scheduler, calls, out>>

\* node = ast.parse(script)
AstParse(trees) ==
    /\ pc = "parse"
    /\ stages' = Append(stages, "VALIDATE")
    /\ \/ Raise(Error("VALIDATE", "SyntaxError")) /\ UNCHANGED node
       \/ \E t \in trees :
            /\ node' = t
            /\ pc' = "validate"
            /\ UNCHANGED err
    /\ UNCHANGED <<body, frontmatter, script, conf, parser, exports, app,
                   scheduler, calls, out>>

\* validator.visit(node)
Validate ==
    /\ pc = "validate"
    /\ LET e == Visit(node)
       IN  IF e = NoErr THEN pc' = "argparse" /\ UNCHANGED err
           ELSE Raise(e)
    /\ UNCHANGED <<body, frontmatter, script, conf, parser, node, exports, app,
                   scheduler, calls, out, stages>>

\* "args": script_parser.parse_args(args.conf_args), while the scope is built
ParseArgs ==
    /\ pc = "argparse"
    /\ stages' = Append(stages, "ARG_PARSE")
    /\ \/ Raise(Error("ARG_PARSE", "SystemExit"))
       \/ pc' = "exec" /\ UNCHANGED err
    /\ UNCHANGED <<body, frontmatter, script, conf, parser, node, exports, app,
                   scheduler, calls, out>>

\* exec(script, scope): the script calls export any number of times and may raise
Exec(values) ==
    /\ pc = "exec"
    /\ stages' = Append(stages, "EXECUTE")
    /\ \E n \in 0..MaxExports : \E args \in [1..n -> values] :
          /\ exports' = args
          /\ app' = RunExports(args, app)
    /\ \/ Raise(Error("EXECUTE", "ScriptError"))
       \/ pc' = "check" /\ UNCHANGED err
    /\ UNCHANGED <<body, frontmatter, script, conf, parser, node, scheduler,
                   calls, out>>

\* assert app is not None; assert isinstance(app, tsm.Application)
CheckExport ==
    /\ pc = "check"
    /\ LET e == CheckApp(app)
       IN  IF e = NoErr THEN pc' = "submit" /\ UNCHANGED err
           ELSE Raise(e)
    /\ UNCHANGED <<body, frontmatter, script, conf, parser, node, exports, app,
                   scheduler, calls, out, stages>>

\* app_handle = session.run(app, ...); print(f"Launched app: ...")
Submit ==
    /\ pc = "submit"
    /\ stages' = Append(stages, "SUBMIT")
    /\ calls' = Append(calls, "run")
    /\ \/ Raise(Error("SUBMIT", "BackendError")) /\ UNCHANGED out
       \/ /\ out' = Append(out, "Launched app")
          /\ pc' = "status"
          /\ UNCHANGED err
    /\ UNCHANGED <<body, frontmatter, script, conf, parser, node, exports, app,
                   scheduler>>

\* status = session.status(app_handle); print(f"App status: ...")
Status ==
    /\ pc = "status"
    /\ stages' = Append(stages, "REPORT")
    /\ calls' = Append(calls, "status")
    /\ \/ Raise(Error("REPORT", "BackendError")) /\ UNCHANGED out
       \/ /\ out' = Append(out, "App status")
          /\ pc' = "report"
          /\ UNCHANGED err
    /\ UNCHANGED <<body, frontmatter, script, conf, parser, node, exports, app,
                   scheduler>>

\* a test that ignores the case of the name
IsLocalAnyCase(name) == name \in {PyStr("local"), PyStr("Local")}

\* the test that selects session.wait
IsLocal(name) == name = PyStr("local")

\* if args.scheduler == "local": session.wait(...) else: print(f"Job URL: ...")
Report ==
    /\ pc = "report"
    /\ IF IsLocal(scheduler)
         THEN /\ calls' = Append(calls, "wait")
              /\ \/ Raise(Error("REPORT", "BackendError"))
                 \/ pc' = "done" /\ UNCHANGED err
              /\ UNCHANGED out
         ELSE /\ out' = Append(out, "Job URL")
              /\ pc' = "done"
              /\ UNCHANGED <<calls, err>>
    /\ UNCHANGED <<body, frontmatter, script, conf, parser, node, exports, app,
                   scheduler, stages>>

-----------------------------------------------------------------------------
(* The inputs: documents, argument declarations, syntax trees, export calls *)

SeqsUpTo(S, n) == UNION {[1..k -> S] : k \in 0..n}

AllDocs == SeqsUpTo(Chars, MaxDocLen)

GoodDoc == <<"a">> \o SEPARATOR \o <<"a">>

FewDocs == {GoodDoc, <<"a", NL, "-", "-", NL, "a">>}

\* a key of a YAML mapping that is present with one of vals, or absent
Field(key, vals) == {[k \in {} |-> None]} \cup {[k \in {key} |-> v] : v \in vals}

TypeNames == {"int", "str", "float", "string"}

Defaults == {PyInt(0), PyInt(1), PyFloat(0), PyStr(""), PyStr("1.5"), PyStr("abc")}

Decls ==
    {("name" :> "x") @@ ty @@ df :
        ty \in Field("type", TypeNames), df \in Field("default", Defaults)}
    \cup {("name" :> "rest") @@ ("remainder" :> PyBool(TRUE)),
          ("type" :> "int") @@ ("default" :> PyStr("1"))}

AllConfs == SeqsUpTo(Decls, MaxArgs)

GoodConf == << ("name" :> "x") @@ ("type" :> "float") @@ ("default" :> PyStr("1.5")) >>

FewConfs ==
    {GoodConf,
     << ("name" :> "x") @@ ("type" :> "string") >>,
     << ("name" :> "x") @@ ("type" :> "int") @@ ("default" :> PyInt(0)),
        ("name" :> "rest") @@ ("remainder" :> PyBool(TRUE)) >>}

Dot == <<".">>
Torchx == IMPORT_ALLOWLIST[1]
TorchelasticTsm == IMPORT_ALLOWLIST[2]
OsPath == IMPORT_ALLOWLIST[3]
PytorchTsm == IMPORT_ALLOWLIST[4]
Os == <<"o", "s">>
Specs == <<"s", "p", "e", "c", "s">>

\* module paths that import statements name
ModulePaths ==
    {Torchx, Torchx \o Dot \o Specs, Torchx \o <<"y">>, SubSeq(Torchx, 1, 5),
     TorchelasticTsm, SubSeq(TorchelasticTsm, 1, 12), OsPath, Os,
     PytorchTsm \o Dot \o Specs, Specs}

ImportNodes ==
    {Import(<<m>>) : m \in ModulePaths}
    \cup {Import(<<m1, m2>>) : m1 \in {Torchx, Os, Specs}, m2 \in {OsPath, Os}}
    \cup {ImportFrom(m, l, <<Specs>>) : m \in ModulePaths, l \in {0, 1}}
    \cup {ImportFrom(<<>>, 1, <<Specs>>)}

\* the leaves and the enclosing nodes the nested statements are built from
Leaves ==
    {Node("Name", <<>>), Node("Return", <<>>), Import(<<Os>>), Import(<<Torchx>>),
     ImportFrom(<<>>, 1, <<Os>>)}

Enclosing == {"AsyncFunctionDef", "For"}

RECURSIVE Nested(_)
\* the nodes with at most d enclosing nodes around a leaf
Nested(d) ==
    IF d = 0 THEN Leaves
    ELSE Nested(d - 1) \cup {Node(k, <<c>>) : k \in Enclosing, c \in Nested(d - 1)}

RECURSIVE Wrap(_, _)
\* n inside d nodes that are not blocked
Wrap(n, d) == IF d = 0 THEN n ELSE Node("AsyncFunctionDef", <<Wrap(n, d - 1)>>)

Module(stmts) == Node("Module", stmts)

AllTrees ==
    {Module(b) : b \in SeqsUpTo(Nested(MaxDepth), MaxBody)}
    \cup {Module(<<Wrap(n, d)>>) :
            n \in ImportNodes \cup {Node(k, <<>>) : k \in FEATURE_BLOCKLIST},
            d \in 0..(MaxDepth + 1)}

GoodTree == Module(<<Import(<<Torchx \o Dot \o Specs>>), Node("Expr", <<Node("Call", <<>>)>>)>>)

FewTrees ==
    {GoodTree,
     Module(<<Node("Expr", <<Node("ListComp", <<>>)>>)>>),
     Module(<<Import(<<Torchx, Os>>)>>),
     Module(<<ImportFrom(<<>>, 1, <<Os>>), Node("Expr", <<Node("Call", <<>>)>>)>>)}

ExportValues == {Application(1), Application(2), Role, None}

-----------------------------------------------------------------------------
(* Specifications *)

\* the whole command, on a few documents, declarations and trees
Next ==
    \/ Load(FewDocs)
    \/ Split
    \/ YamlLoad(FewConfs)
    \/ BuildSchema
    \/ AstParse(FewTrees)
    \/ Validate
    \/ ParseArgs
    \/ Exec(ExportValues)
    \/ CheckExport
    \/ Submit
    \/ Status
    \/ Report

Spec == Init /\ [][Next]_vars

\* run is sequential code: it keeps executing until it returns or raises
FairSpec == Spec /\ WF_vars(Next)

\* the split, on every document up to MaxDocLen
NextSplit ==
    \/ Load(AllDocs)
    \/ Split
    \/ YamlLoad({GoodConf})

SpecSplit == InitLocal /\ [][NextSplit]_vars

\* the argument loop, on every list of up to MaxArgs declarations
NextSchema ==
    \/ Load({GoodDoc})
    \/ Split
    \/ YamlLoad(AllConfs)
    \/ BuildSchema
    \/ AstParse({GoodTree})

SpecSchema == InitLocal /\ [][NextSchema]_vars

\* the validator, on every tree of AllTrees
NextValidate ==
    \/ Load({GoodDoc})
    \/ Split
    \/ YamlLoad({GoodConf})
    \/ BuildSchema
    \/ AstParse(AllTrees)
    \/ Validate

SpecValidate == InitLocal /\ [][NextValidate]_vars

-----------------------------------------------------------------------------
(* Properties of the split (SpecSplit) *)

\* the places where the separator occurs in s, overlapping or not
Occurrences(s) ==
    {j \in 1..(Len(s) - Len(SEPARATOR) + 1) :
        SubSeq(s, j, j + Len(SEPARATOR) - 1) = SEPARATOR}

SplitRan == Len(stages) >= 2
SplitFailed == pc = "failed" /\ err = Error("SPLIT", "ValueError")
SplitLossless == frontmatter \o SEPARATOR \o script = body

\* C6 as stated: without the separator the split fails and no metadata is
\* parsed; with exactly one occurrence it succeeds and metadata + separator +
\* script is the document; with more than one occurrence it is rejected.
C6_AnyRepeatRejected ==
    SplitRan =>
        LET occ == Occurrences(body)
        IN  /\ occ = {} => SplitFailed /\ conf = NoConf
            /\ Cardinality(occ) = 1 => ~SplitFailed /\ SplitLossless
            /\ Cardinality(occ) > 1 => SplitFailed

\* C6 amended: without the separator the split fails and no metadata is
\* parsed; a document with two occurrences that do not overlap is rejected;
\* when the separator occurs and every further occurrence overlaps the first
\* one, the split succeeds at the first occurrence and metadata + separator +
\* script is the document.
C6_SplitOnDisjointOccurrences ==
    SplitRan =>
        LET occ == Occurrences(body)
        IN  /\ occ = {} => SplitFailed /\ conf = NoConf
            /\ (\E j, k \in occ : k >= j + Len(SEPARATOR)) => SplitFailed /\ conf = NoConf
            /\ (occ # {} /\ \A j, k \in occ : k < j + Len(SEPARATOR)) =>
                    /\ ~SplitFailed
                    /\ SplitLossless
                    /\ \A j \in occ : Len(frontmatter) < j

\* a document with two overlapping separators was split and its metadata parsed
C6_Witness ==
    /\ conf.loaded
    /\ Cardinality(Occurrences(body)) = 2
    /\ SplitLossless

-----------------------------------------------------------------------------
(* Properties of the argument loop (SpecSchema) *)

SchemaRan == Len(stages) >= 3
SchemaFailed == pc = "failed" /\ err.stage = "SCHEMA_BUILD"

\* declaration i was reached: every declaration before it was added
Reached(i) == i <= Len(parser) + 1

ScriptUntouched == node = NoNode /\ exports = <<>> /\ Len(stages) = 3

\* the coercion function of a scalar kind
KindFunction(kind) == IF kind = "string" THEN "str" ELSE kind

\* a declaration naming a type outside `kinds` fails the build with the
\* unknown-type error before the script is touched; a declaration naming one
\* of `kinds`, or no type, gets that kind's coercion function
TypesResolved(kinds) ==
    SchemaRan =>
        \A i \in 1..Len(conf.arguments) :
            LET arg == conf.arguments[i]
                named == "type" \in DOMAIN arg
            IN  Reached(i) =>
                  /\ (named /\ arg["type"] \notin kinds) =>
                        /\ SchemaFailed
                        /\ err.kind = "TypeError"
                        /\ err.name = arg["type"]
                        /\ Len(parser) = i - 1
                        /\ ScriptUntouched
                  /\ (~named \/ arg["type"] \in kinds) =>
                        IF i <= Len(parser)
                          THEN parser[i].type =
                                 (IF named THEN KindFunction(arg["type"]) ELSE "str")
                          ELSE SchemaFailed /\ err.kind # "TypeError"

C9_PresentDefaultsCoerced ==
    SchemaRan =>
        \A i \in 1..Len(conf.arguments) :
            LET arg == conf.arguments[i]
                arg_type == GetArgType(Get(arg, "type", "str"))
            IN  (Reached(i) /\ "default" \in DOMAIN arg /\ arg_type.ok) =>
                  LET c == Coerce(arg_type.type, arg["default"])
                  IN  IF c.ok
                        THEN i <= Len(parser) =>
                               /\ parser[i].default = c.val
                               /\ parser[i].default.t = arg_type.type
                        ELSE /\ SchemaFailed
                             /\ err.kind = "ValueError"
                             /\ Len(parser) = i - 1

-----------------------------------------------------------------------------
(* Properties of the validator (SpecValidate) *)

RECURSIVE Preorder(_)
RECURSIVE PreorderAll(_)
\* the nodes of a tree, parent before children, children left to right
Preorder(n) == <<n>> \o PreorderAll(n.children)
PreorderAll(ns) == IF ns = <<>> THEN <<>> ELSE Preorder(Head(ns)) \o PreorderAll(Tail(ns))

Range(f) == {f[i] : i \in DOMAIN f}
Least(S) == CHOOSE i \in S : \A k \in S : i <= k

IsImport(n) == n.kind \in {"Import", "ImportFrom"}

\* path begins with one of the allowed prefixes
HasAllowedPrefix(path) ==
    \E p \in Range(IMPORT_ALLOWLIST) :
        Len(p) <= Len(path) /\ \A k \in 1..Len(p) : path[k] = p[k]

\* the module paths a statement imports: the alias names of `import`, the
\* module of `from m import ...`, and for a relative `from` the module or
\* names below the current package
ImportedPaths(n) ==
    IF n.kind = "Import" THEN Range(n.names)
    ELSE IF n.level = 0 THEN {n.module}
    ELSE IF n.module # <<>> THEN {Dot \o n.module}
    ELSE {Dot \o name : name \in Range(n.names)}

\* the names written in an import statement
Mentioned(n) == Range(n.names) \cup {n.module}

DisallowedImport(n) == IsImport(n) /\ \E path \in ImportedPaths(n) : ~HasAllowedPrefix(path)

\* the imports _validate_import_path is given a path of and rejects
RejectedImport(n) ==
    /\ IsImport(n)
    /\ \/ n.kind = "Import" /\ \E path \in Range(n.names) : ~HasAllowedPrefix(path)
       \/ n.kind = "ImportFrom" /\ n.module # <<>> /\ ~HasAllowedPrefix(n.module)

BlockedAt(pre) == {i \in 1..Len(pre) : pre[i].kind \in FEATURE_BLOCKLIST}

Validated == node # NoNode /\ pc # "validate"
ValidationFailed == pc = "failed" /\ err.stage = "VALIDATE"
Unsupported(kind) == [Error("VALIDATE", "UnsupportFeatureError") EXCEPT !.name = kind]

\* C1 as stated: a tree with a blocked node at any depth fails with the
\* unsupported-feature error naming a blocked construct of the tree; a tree
\* with no blocked node and only allowed imports passes.
C1_BlockedAlwaysUnsupported ==
    Validated =>
        LET pre == Preorder(node)
        IN  /\ BlockedAt(pre) # {} =>
                  /\ ValidationFailed
                  /\ \E i \in BlockedAt(pre) : err = Unsupported(pre[i].kind)
            /\ (BlockedAt(pre) = {} /\ \A i \in 1..Len(pre) : ~DisallowedImport(pre[i])) =>
                  pc = "argparse" /\ err = NoErr

\* C1 amended: a tree with a blocked node at any depth fails validation; the
\* error is the unsupported-feature error naming the first blocked node in
\* pre-order, unless an import statement the validator rejects comes before
\* that node in pre-order, and then it is the import error; a tree with no
\* blocked node and only allowed imports passes.
C1_BlockedAlwaysFails ==
    Validated =>
        LET pre == Preorder(node)
        IN  /\ BlockedAt(pre) # {} =>
                  LET b == Least(BlockedAt(pre))
                  IN  /\ ValidationFailed
                      /\ IF \E j \in 1..(b - 1) : RejectedImport(pre[j])
                           THEN err.kind = "ImportError"
                           ELSE err = Unsupported(pre[b].kind)
            /\ (BlockedAt(pre) = {} /\ \A i \in 1..Len(pre) : ~DisallowedImport(pre[i])) =>
                  pc = "argparse" /\ err = NoErr

\* a blocked node below two enclosing nodes, after an allowed statement, was caught
C1_Witness ==
    /\ Validated
    /\ err.kind = "UnsupportFeatureError"
    /\ Least(BlockedAt(Preorder(node))) >= 5

\* C2 as stated: an import statement (import, from-import, relative
\* from-import, several modules) that is reached with no violation before it
\* fails validation with the import error citing a path of the statement when
\* one of its imported paths has no allowed prefix; a script whose imports all
\* have an allowed prefix, with no blocked construct, passes.
C2_EveryImportChecked ==
    Validated =>
        LET pre == Preorder(node)
            violation(n) == n.kind \in FEATURE_BLOCKLIST \/ DisallowedImport(n)
        IN  /\ \A i \in 1..Len(pre) :
                  (DisallowedImport(pre[i]) /\ \A j \in 1..(i - 1) : ~violation(pre[j])) =>
                      /\ ValidationFailed
                      /\ err.kind = "ImportError"
                      /\ err.path \in Mentioned(pre[i])
            /\ (\A i \in 1..Len(pre) : ~violation(pre[i])) => pc = "argparse" /\ err = NoErr

\* C10 as stated: in a script with several violations, validation reports the
\* one that comes first in pre-order: a blocked construct by its kind, a
\* disallowed import by a path of that statement.
C10_FirstViolationReported ==
    Validated =>
        LET pre == Preorder(node)
            viol == {i \in 1..Len(pre) :
                        pre[i].kind \in FEATURE_BLOCKLIST \/ DisallowedImport(pre[i])}
        IN  Cardinality(viol) >= 2 =>
              LET first == pre[Least(viol)]
              IN  /\ ValidationFailed
                  /\ IF IsImport(first)
                       THEN err.kind = "ImportError" /\ err.path \in Mentioned(first)
                       ELSE err = Unsupported(first.kind)

-----------------------------------------------------------------------------
(* Properties of the whole command (Spec, FairSpec) *)

IsPrefix(s, t) == Len(s) <= Len(t) /\ s = SubSeq(t, 1, Len(s))
Last(s) == s[Len(s)]

\* the stages in the order run executes them
CodeOrder ==
    <<"LOAD", "SPLIT", "SCHEMA_BUILD", "VALIDATE", "ARG_PARSE", "EXECUTE", "SUBMIT", "REPORT">>

\* the stages in the order the launcher's state machine is documented
DocumentedOrder ==
    <<"LOAD", "SPLIT", "SCHEMA_BUILD", "ARG_PARSE", "VALIDATE", "EXECUTE", "SUBMIT", "REPORT">>

\* C3: the session is called only when load, split, schema build, argument
\* parsing, validation and execution all succeeded and the exported value is
\* an Application; a run that failed in one of those stages made no session
\* call.
C3_SubmitOnlyAfterPipeline ==
    /\ calls # <<>> =>
          /\ SubSeq(stages, 1, 6) = SubSeq(CodeOrder, 1, 6)
          /\ frontmatter \o SEPARATOR \o script = body
          /\ conf.loaded
          /\ Len(parser) = Len(conf.arguments)
          /\ node # NoNode
          /\ \A n \in Range(Preorder(node)) :
                n.kind \notin FEATURE_BLOCKLIST /\ ~RejectedImport(n)
          /\ exports # <<>>
          /\ app.t = "Application"
          /\ calls[1] = "run"
    /\ (pc = "failed" /\ err.stage \in Range(SubSeq(CodeOrder, 1, 6))) => calls = <<>>

\* the job was submitted and the run completed
C3_Witness == pc = "done" /\ calls[1] = "run" /\ Len(stages) = 8

\* the asserts have run on the value left by a script that returned
ExportChecked ==
    /\ Len(stages) >= 6
    /\ pc # "check"
    /\ err.kind # "ScriptError"

ExecutionFailed(message) ==
    pc = "failed" /\ err.stage = "EXECUTE" /\ err.kind = "AssertionError" /\ err.name = message

\* C4 as stated: no export call gives the missing-export error; otherwise the
\* value checked is the argument of the last call; if it is not an Application
\* the type-mismatch error is raised, and if it is one it is handed on.
C4_NonApplicationIsMismatch ==
    ExportChecked =>
        IF exports = <<>> THEN ExecutionFailed(MISSING_EXPORT)
        ELSE /\ app = Last(exports)
             /\ Last(exports).t # "Application" => ExecutionFailed(NOT_AN_APPLICATION)
             /\ Last(exports).t = "Application" => err.stage # "EXECUTE"

\* C4 amended: no export call, or a last call whose argument is None, gives
\* the missing-export error; otherwise the value checked is the argument of
\* the last call; if it is neither None nor an Application the type-mismatch
\* error is raised, and if it is an Application it is handed on.
C4_LastExportDecides ==
    ExportChecked =>
        IF exports = <<>> THEN ExecutionFailed(MISSING_EXPORT)
        ELSE /\ app = Last(exports)
             /\ Last(exports) = None => ExecutionFailed(MISSING_EXPORT)
             /\ (Last(exports) # None /\ Last(exports).t # "Application") =>
                    ExecutionFailed(NOT_AN_APPLICATION)
             /\ Last(exports).t = "Application" => err.stage # "EXECUTE"

\* two different values were exported and the second one was handed on
C4_Witness ==
    /\ pc = "submit"
    /\ Len(exports) = 2
    /\ exports[1] # exports[2]
    /\ app = exports[2]

\* the stages entered so far follow `order`, each after the one before it
\* succeeded and none twice; a failure leaves run with that stage's error
StagesFollow(order) ==
    /\ IsPrefix(stages, order)
    /\ pc = "failed" => err # NoErr /\ err.stage = Last(stages)
    /\ pc # "failed" => err = NoErr

\* C5 as stated: the stages run in the order LOAD, SPLIT, SCHEMA_BUILD,
\* ARG_PARSE, VALIDATE, EXECUTE, SUBMIT, REPORT; a failure ends the run with
\* that stage's error, no later stage runs and none runs twice.
C5_DocumentedOrder == StagesFollow(DocumentedOrder)

\* C5 amended: the stages run in the order LOAD, SPLIT, SCHEMA_BUILD,
\* VALIDATE, ARG_PARSE, EXECUTE, SUBMIT, REPORT (the script is validated before
\* the invocation tokens are parsed); a failure ends the run with that
\* stage's error, no later stage runs and none runs twice.
C5_ValidateBeforeArgParse == StagesFollow(CodeOrder)

\* argument parsing failed after the script had passed validation
C5_Witness ==
    /\ pc = "failed"
    /\ err.stage = "ARG_PARSE"
    /\ node # NoNode
    /\ stages = SubSeq(CodeOrder, 1, 5)

C8_Safety ==
    /\ IsPrefix(calls, <<"run", "status", "wait">>)
    /\ pc \in {"report", "done"} =>
          /\ SubSeq(calls, 1, 2) = <<"run", "status">>
          /\ SubSeq(out, 1, 2) = <<"Launched app", "App status">>
    /\ Len(calls) = 3 => scheduler = PyStr("local")
    /\ pc = "done" =>
          IF scheduler = PyStr("local")
            THEN calls = <<"run", "status", "wait">> /\ Len(out) = 2
            ELSE calls = <<"run", "status">> /\ out = <<"Launched app", "App status", "Job URL">>

\* C8: after a successful submit the status is fetched and reported once;
\* then wait is called exactly when the scheduler is "local", and for any
\* other name or None the job URL is printed and run returns without wait;
\* wait never comes before run and status.
C8_WaitOnlyForLocal ==
    /\ []C8_Safety
    /\ (pc = "status") ~> (Len(calls) >= 2)
    /\ (pc = "report" /\ scheduler = PyStr("local")) ~> (Len(calls) = 3)
    /\ (pc = "report" /\ scheduler # PyStr("local")) ~> (pc = "done")

\* a run without --scheduler returned after the status, without waiting
C8_Witness ==
    /\ pc = "done"
    /\ scheduler = None
    /\ calls = <<"run", "status">>

====
